---------------------------- MODULE Spec2Model ----------------------------
(***************************************************************************)
(* A model of the quique broker: the typed field codec (protocol.rs), the  *)
(* rendezvous-hash leader choice (cluster.rs), the registry of topics and  *)
(* bounded queues (queue.rs) and the request handlers (handler.rs).        *)
(*                                                                         *)
(* The model is of one broker process: the node `me` of a static cluster,  *)
(* with its Registry.  Connections are served by independent tasks on a    *)
(* multi-threaded runtime, so the shared-memory operations of handlers     *)
(* running for different connections interleave; every action below is     *)
(* one linearisation point (or a run of steps that touch only task-local   *)
(* state).                                                                 *)
(***************************************************************************)
EXTENDS Integers, Sequences, FiniteSets, TLC

\* ------------------------------------------------------------------ bounds
\* number of Produce requests that reach the fan-out loop
MaxProduce == 2
\* the 64-bit hash values are drawn from 0..MaxScore
MaxScore == 1
\* largest timeout_ms a Consume request of the model carries
MaxTimeout == 1
\* number of reads a connection loop makes
MaxReads == 3
\* largest number of concurrent pop_wait callers on one queue
MaxWaiters == 2
\* largest length of the strings and byte sequences given to put_str and
\* put_bytes (one longer value apart)
MaxLen == 2

\* ------------------------------------------------------------ the universe
\* QBUS_NODES, in list order (cluster.rs from_env)
NodeList == <<"a", "b">>
Nodes == {NodeList[i] : i \in 1..Len(NodeList)}
\* Node.addr, as the bytes put_str writes
Addr(n) == IF n = "a" THEN <<49>> ELSE <<50>>

\* names of topics and queues, as ASCII bytes ("t" and "q")
NameT == <<116>>
NameQ == <<113>>
Names == {NameT, NameQ}
\* the capacities CreateQueue requests ask for
Caps == {0, 1, 2}
\* message payloads, the zero-length one included
Payloads == {<<>>, <<7>>}
\* the names clients use for topics
TopicNames == {NameT}
\* the connections the process serves, one task each (server.rs run):
\* connection 1 is a client that sends every kind of request, connection 2 a
\* client that only produces and consumes
Conns == {1, 2}
Admins == {1}

VARIABLES
    me,         \* Cluster.me: the id of this node (QBUS_NODE_ID)
    hash,       \* hash[<<id, topic>>]: seahash of "id:topic"
    topics,     \* Registry.topics[name]: NoTopic, or the Topic (its bound_queues)
    queues,     \* Registry.queues[name]: NoQueue, or the Queue (cap, mem, permit)
    task,       \* task[c]: where the handler serving connection c stands
    last,       \* history: the last handler step that changed the state
    pushed,     \* history: pushed[q], the payloads pushed into q, in order
    popped,     \* history: popped[q], the payloads popped from q, in order
    fanouts,    \* history: the number of fan-out loops started
    conns,      \* conns[c]: the connection loop of c (open or not, its buffer)
    iter,       \* history: the last turn of a connection loop
    cli,        \* a client inside redirecting_call_resp
    pw,         \* one queue with its pop_wait callers and its producers
    cod         \* a value on its way through put_* and get_*

\* the state outside the registry and its handlers
wire == <<conns, iter, cli, pw, cod>>
vars == <<me, hash, topics, queues, task, last, pushed, popped, fanouts, wire>>

\* ------------------------------------------------------- protocol.rs codec
\* Status (protocol.rs 32-41), as the u16 put_status writes
StOk == 0
StRedirect == 10
StEmpty == 11
StTopicExists == 12
StNotFound == 13
StBadRequest == 400
StServerError == 500

\* put_u16 / put_u32: big-endian, the value taken modulo 2^16 / 2^32 (each
\* byte is reduced modulo 256, which is what an `as u16` / `as u32` cast keeps)
U16BE(n) == <<(n \div 256) % 256, n % 256>>
U32BE(n) == <<(n \div 16777216) % 256, (n \div 65536) % 256, (n \div 256) % 256, n % 256>>
FromBE(b, k) == IF k = 2 THEN b[1] * 256 + b[2]
                ELSE b[1] * 16777216 + b[2] * 65536 + b[3] * 256 + b[4]
Drop(b, k) == SubSeq(b, k + 1, Len(b))

\* String::from_utf8_lossy on the byte alphabet of the model: ASCII bytes stay,
\* a lone continuation byte (128..191) becomes U+FFFD (EF BF BD); valid input
\* is returned as it is (Cow::Borrowed)
RECURSIVE Utf8Lossy(_)
Utf8Lossy(b) ==
    IF \A i \in 1..Len(b) : b[i] < 128 THEN b
    ELSE (IF b[1] < 128 THEN <<b[1]>> ELSE <<239, 191, 189>>) \o Utf8Lossy(Tail(b))

PutStatus(st) == U16BE(st)
PutU32(v) == U32BE(v)
PutStr(s) == U16BE(Len(s) % 65536) \o s
PutBytes(v) == U32BE(Len(v)) \o v

\* the get_* functions return the value and the cursor they leave behind
None(rest) == [ok |-> FALSE, val |-> <<>>, rest |-> rest]
Some(v, rest) == [ok |-> TRUE, val |-> v, rest |-> rest]

\* a faulty get_str, to compare with: one that reads the length low byte first
GetStrLE(b) ==
    IF Len(b) < 2 THEN None(b)
    ELSE LET len == b[2] * 256 + b[1]
             r == Drop(b, 2)
         IN  IF Len(r) < len THEN None(r)
             ELSE Some(Utf8Lossy(SubSeq(r, 1, len)), Drop(r, len))
GetStr(b) ==
    IF Len(b) < 2 THEN None(b)
    ELSE LET len == FromBE(b, 2)
             r == Drop(b, 2)
         IN  IF Len(r) < len THEN None(r)
             ELSE Some(Utf8Lossy(SubSeq(r, 1, len)), Drop(r, len))

GetBytes(b) ==
    IF Len(b) < 4 THEN None(b)
    ELSE LET n == FromBE(b, 4)
             r == Drop(b, 4)
         IN  IF Len(r) < n THEN None(r)
             ELSE Some(SubSeq(r, 1, n), Drop(r, n))

GetU32(b) ==
    IF Len(b) < 4 THEN [ok |-> FALSE, val |-> 0, rest |-> b]
    ELSE [ok |-> TRUE, val |-> FromBE(b, 4), rest |-> Drop(b, 4)]

\* ------------------------------------------------------ protocol.rs frames
MAGIC == 1363301715
VERSION == 1
HeaderLen == 16
OpCreateTopic == 1
OpProduce == 2
OpConsume == 3
OpMetadata == 4
OpRead == 5

\* enum Op
Op == {OpCreateTopic, OpProduce, OpConsume, OpMetadata, OpRead}

\* a faulty conversion, to compare with: one that accepts every byte
OpTryFromAny(v) == TRUE
\* Op::try_from: Err(InvalidOpcode) for a byte outside the enum
OpTryFrom(v) == v \in Op

\* Header::encode: MAGIC and VERSION are written whatever the fields hold;
\* the reserved byte is 0
HeaderEncode(h) ==
    U32BE(MAGIC) \o <<VERSION, h.op, h.flags, 0>>
        \o U32BE(h.stream_id) \o U32BE(h.body_len)

NoHeader == [op |-> 0, flags |-> 0, stream_id |-> 0, body_len |-> 0]

\* Header::decode: Ok(None) on fewer than 16 bytes, Err on a wrong magic,
\* version or opcode, else the header, with the 16 bytes taken off the buffer
HeaderDecode(src) ==
    IF Len(src) < HeaderLen THEN [res |-> "none", hdr |-> NoHeader, rest |-> src]
    ELSE IF FromBE(SubSeq(src, 1, 4), 4) # MAGIC
         THEN [res |-> "err", hdr |-> NoHeader, rest |-> src]
    ELSE IF src[5] # VERSION THEN [res |-> "err", hdr |-> NoHeader, rest |-> src]
    ELSE IF ~OpTryFrom(src[6]) THEN [res |-> "err", hdr |-> NoHeader, rest |-> src]
    ELSE [res |-> "some",
          hdr |-> [op |-> src[6], flags |-> src[7],
                   stream_id |-> FromBE(SubSeq(src, 9, 12), 4),
                   body_len |-> FromBE(SubSeq(src, 13, 16), 4)],
          rest |-> Drop(src, HeaderLen)]

\* ------------------------------------------------------ cluster.rs leader
\* the fold of leader_of over nodes[1..i]: best = (node, score), replaced only
\* by a strictly greater score
\* a faulty fold, to compare with: one in which an equal score replaces best
RECURSIVE BestLast(_, _)
BestLast(topic, i) ==
    IF i = 1 THEN NodeList[1]
    ELSE LET b == BestLast(topic, i - 1)
         IN  IF hash[<<NodeList[i], topic>>] >= hash[<<b, topic>>]
             THEN NodeList[i] ELSE b
RECURSIVE Best(_, _)
Best(topic, i) ==
    IF i = 1 THEN NodeList[1]
    ELSE LET b == Best(topic, i - 1)
         IN  IF hash[<<NodeList[i], topic>>] > hash[<<b, topic>>]
             THEN NodeList[i] ELSE b

LeaderOf(topic) == Best(topic, Len(NodeList))
\* is_leader, in the Cluster whose `me` is node n
IsLeaderAt(n, topic) == LeaderOf(topic) = n

\* ------------------------------------------------------- queue.rs Queue
NoQueue == [cap |-> 0, mem |-> <<>>, permit |-> FALSE]
NoTopic == [exists |-> FALSE, bound_queues |-> {}]

\* Queue::new: ArrayQueue::new(cap), Notify::new()
QueueNew(cap) == [cap |-> cap, mem |-> <<>>, permit |-> FALSE]
\* Topic::new
TopicNew == [exists |-> TRUE, bound_queues |-> {}]

\* two faulty pushes, to compare with: one that ignores the capacity and one
\* that inserts at the head
QPushUnbounded(q, val) ==
    [ok |-> TRUE, q |-> [q EXCEPT !.mem = Append(@, val), !.permit = TRUE]]
QPushFront(q, val) ==
    IF Len(q.mem) < q.cap
    THEN [ok |-> TRUE, q |-> [q EXCEPT !.mem = <<val>> \o @, !.permit = TRUE]]
    ELSE [ok |-> FALSE, q |-> q]
\* Queue::push: ArrayQueue::push fails on a full ring; a successful push calls
\* notify_one, which stores a permit when no task waits
QPush(q, val) ==
    IF Len(q.mem) < q.cap
    THEN [ok |-> TRUE, q |-> [q EXCEPT !.mem = Append(@, val), !.permit = TRUE]]
    ELSE [ok |-> FALSE, q |-> q]

\* two faulty pops, to compare with: one that leaves the element in the queue
\* and one that takes the newest element
QPopPeek(q) ==
    IF q.mem = <<>> THEN [ok |-> FALSE, val |-> <<>>, q |-> q]
    ELSE [ok |-> TRUE, val |-> Head(q.mem), q |-> q]
QPopLast(q) ==
    IF q.mem = <<>> THEN [ok |-> FALSE, val |-> <<>>, q |-> q]
    ELSE [ok |-> TRUE, val |-> q.mem[Len(q.mem)],
          q |-> [q EXCEPT !.mem = SubSeq(@, 1, Len(@) - 1)]]
\* Queue::pop: ArrayQueue::pop takes the oldest element
QPop(q) ==
    IF q.mem = <<>> THEN [ok |-> FALSE, val |-> <<>>, q |-> q]
    ELSE [ok |-> TRUE, val |-> Head(q.mem), q |-> [q EXCEPT !.mem = Tail(@)]]

\* ----------------------------------------------------- queue.rs Registry
\* a faulty lookup, to compare with: one that never finds a topic
GetTopicNever(name) == FALSE
GetTopic(name) == topics[name].exists
GetQueue(name) == queues[name] # NoQueue


\* DashMap::entry(name).or_insert_with(..): one atomic get-or-insert
CreateTopicEntry(ts, name) ==
    IF ts[name].exists THEN ts ELSE [ts EXCEPT ![name] = TopicNew]
\* two faulty inserts, to compare with: a check-then-insert whose insert
\* overwrites the entry, and a registry that holds one queue at a time
CreateQueueEntryOverwrite(qs, name, cap) == [qs EXCEPT ![name] = QueueNew(cap)]
CreateQueueEntrySingle(qs, name, cap) ==
    IF qs[name] # NoQueue THEN qs
    ELSE [nm \in Names |-> IF nm = name THEN QueueNew(cap) ELSE NoQueue]
CreateQueueEntry(qs, name, cap) ==
    IF qs[name] # NoQueue THEN qs ELSE [qs EXCEPT ![name] = QueueNew(cap)]
\* a faulty bind, to compare with: one that replaces the bound set
BindReplace(t, queue) == [t EXCEPT !.bound_queues = {queue}]
\* Topic::bind: DashSet::insert
Bind(t, queue) == [t EXCEPT !.bound_queues = @ \cup {queue}]

\* ------------------------------------------------------------ the tasks
Idle == [pc |-> "idle", name |-> <<>>, data |-> <<>>, cap |-> 0,
         snap |-> {}, seen |-> {}]

\* what a handler wrote to `out`: the status, then the payload.  A status of
\* -1 stands for no reply yet (the handler goes on to its next step)
Going == 0 - 1
Out(st, payload) == [status |-> st, body |-> PutStatus(st) \o payload]
NoOut == [status |-> Going, body |-> <<>>]

\* the record of a step: the request, the reply and, for a step on a queue,
\* the queue as it was before the step (for a bind: the bound set before it;
\* for a create: whether the step inserted the entry, and the capacity asked)
Step(op, name, out) ==
    [op |-> op, name |-> name, status |-> out.status, body |-> out.body,
     timeout |-> 0, q |-> <<>>, pre |-> NoQueue, ok |-> FALSE, bound |-> {},
     cap |-> 0]

\* the request bodies the clients of the model send
ConsumeBody(q, tmo) == PutStr(q) \o PutU32(tmo)
ProduceBody(t, d) == PutStr(t) \o PutBytes(d)
TopicBodies == {PutStr(t) : t \in TopicNames} \cup {<<0>>}
CreateQueueBodies ==
    {PutStr(q) \o PutU32(cap) : q \in Names, cap \in Caps} \cup {PutStr(NameQ)}
BindBodies == {PutStr(t) \o PutStr(q) : t \in TopicNames, q \in Names} \cup {PutStr(NameT)}
\* each client produces its own payload: connection 1 the zero-length one
PayloadOf(c) == IF c = 1 THEN <<>> ELSE <<7>>
ProduceBodies(c) ==
    {PutStr(t) \o PutBytes(PayloadOf(c)) : t \in TopicNames} \cup {PutStr(NameT)}
ConsumeBodies ==
    {PutStr(q) \o PutU32(tmo) : q \in Names, tmo \in {0, MaxTimeout}}
        \cup {PutStr(q) : q \in Names} \cup {<<0>>}

\* a connection loop before its first read, and the record of a turn of a
\* loop: the connection, how the turn ended, the buffer it decoded from, the
\* header and body it decoded, the bytes it wrote to the socket, and the
\* registry as it was before.  A loop ends "closed" when handle_conn returns
\* Ok (end of stream) and "failed" when it returns the decoder's error
\* (state: "open" at read_buf, "writing" inside the write_all calls of a
\* reply; pend: the buffers still to be written; sent: the bytes of the
\* reply in progress that are on the wire)
NoConn == [state |-> "open", buf |-> <<>>, reads |-> 0, pend |-> <<>>,
           sent |-> <<>>]
NoIter == [conn |-> 0, kind |-> "none", buf |-> <<>>, hdr |-> NoHeader,
           body |-> <<>>, wrote |-> <<>>, topics |-> <<>>, queues |-> <<>>]
\* no call in progress
\* (asked: the addresses it connected to; told: the addresses it was
\* redirected to; net: whether the nodes it talks to hold the same member list)
NoCall == [pc |-> "idle", net |-> "agree", current |-> <<>>, attempts |-> 0,
           asked |-> <<>>, told |-> <<>>, status |-> Going, payload |-> <<>>]

\* no pop_wait in progress.  (n: the number of callers and of producers; q:
\* the queue; parked: the tasks suspended in notify.notified(), oldest first;
\* w[i]: caller i, with the payload it returned and how it got past its last
\* await; p[i]: producer i)
NoWait == [n |-> 0, q |-> NoQueue, parked |-> <<>>, w |-> <<>>, p |-> <<>>]

\* no value in the codec.  (fn: "str", "bytes" or "u32"; val: the value
\* written; tail: what was written after it; buf: the buffer read from; cut:
\* whether the buffer stops short of the value; res: what get_* returned)
NoCodec == [pc |-> "idle", fn |-> "none", val |-> <<>>, tail |-> <<>>,
            buf |-> <<>>, cut |-> FALSE, res |-> None(<<>>)]

\* the hash values of the model: leader_of only compares scores, so they are
\* taken relative to the score of the first node
Hashes ==
    {h \in [Nodes \X TopicNames -> 0..MaxScore] :
        \A t \in TopicNames : h[<<NodeList[1], t>>] = 0}
\* the hash values as they are, every node with any score
AllHashes == [Nodes \X TopicNames -> 0..MaxScore]

TypeOK ==
    /\ me \in Nodes
    /\ hash \in AllHashes
    /\ \A nm \in Names :
          /\ topics[nm].bound_queues \subseteq Names
          /\ queues[nm].cap \in Caps
    /\ \A c \in Conns : task[c].pc \in {"idle", "create_topic", "create_queue",
                                        "fanout", "panicked"}
    /\ fanouts \in 0..MaxProduce

\* the process runs with the default QBUS_NODE_ID, the first node of the list
Fresh ==
    /\ me = NodeList[1]
    /\ topics = [nm \in Names |-> NoTopic]
    /\ queues = [nm \in Names |-> NoQueue]
    /\ task = [c \in Conns |-> Idle]
    /\ last = Step("None", <<>>, NoOut)
    /\ pushed = [nm \in Names |-> <<>>]
    /\ popped = [nm \in Names |-> <<>>]
    /\ fanouts = 0
    /\ conns = [c \in Conns |-> NoConn]
    /\ iter = NoIter
    /\ cli = NoCall
    /\ pw = NoWait
    /\ cod = NoCodec

Init == hash \in Hashes /\ Fresh

\* ------------------------------------------------- handler.rs, per request
\* Every handler is given as an operator, its reply (and what it would write)
\* for a request body in the current state, and as actions, the steps in which
\* it writes to the registry.  A request answered by an early return, or by
\* Empty, writes nothing: it is a stuttering step, and its reply is the value
\* of the operator.
\* a faulty handler, to compare with: one that redirects as the others do
MetadataOutRedirect(body) ==
    LET topic == GetStr(body)
        leader == LeaderOf(topic.val)
    IN  IF ~topic.ok THEN Out(StBadRequest, <<>>)
        ELSE IF leader # me THEN Out(StRedirect, PutStr(Addr(leader)))
        ELSE Out(StOk, PutU32(1) \o U32BE(0) \o PutStr(Addr(leader)))
\* handle_metadata: the reply names the leader of the topic; nothing is written
MetadataOut(body) ==
    LET topic == GetStr(body)
    IN  IF ~topic.ok THEN Out(StBadRequest, <<>>)
        ELSE Out(StOk, PutU32(1) \o U32BE(0) \o PutStr(Addr(LeaderOf(topic.val))))

\* a faulty handler, to compare with: the debug dump of a topic's messages
ReadOutDump(body) ==
    LET topic == GetStr(body)
    IN  IF ~topic.ok THEN Out(StBadRequest, <<>>)
        ELSE IF ~GetTopic(topic.val) THEN Out(StNotFound, <<>>)
        ELSE Out(StOk, PutU32(0))
\* handle_read: the reserved opcode is always answered BadRequest
ReadOut(body) == Out(StBadRequest, <<>>)

\* handle_create_topic up to the existence check
CreateTopicOut(body) ==
    LET topic == GetStr(body)
        leader == LeaderOf(topic.val)
    IN  IF ~topic.ok THEN Out(StBadRequest, <<>>)
        ELSE IF leader # me THEN Out(StRedirect, PutStr(Addr(leader)))
        ELSE IF GetTopic(topic.val) THEN Out(StTopicExists, <<>>)
        ELSE NoOut

HandleCreateTopic(c, body) ==
    LET out == CreateTopicOut(body)
        topic == GetStr(body).val
    IN  /\ task[c].pc = "idle"
        /\ out.status = Going
        /\ task' = [task EXCEPT ![c] = [Idle EXCEPT !.pc = "create_topic",
                                                   !.name = topic]]
        /\ last' = Step("CreateTopic", topic, out)
        /\ UNCHANGED <<wire, me, hash, topics, queues, pushed, popped, fanouts>>

\* handle_create_topic: registry.create_topic(topic); put_status(Ok)
CreateTopicInsert(c) ==
    LET topic == task[c].name
    IN  /\ task[c].pc = "create_topic"
        /\ topics' = CreateTopicEntry(topics, topic)
        /\ task' = [task EXCEPT ![c] = Idle]
        /\ last' = [Step("CreateTopic", topic, Out(StOk, <<>>)) EXCEPT
                       !.ok = ~GetTopic(topic)]
        /\ UNCHANGED <<wire, me, hash, queues, pushed, popped, fanouts>>

\* handle_create_queue up to the existence check
CreateQueueOut(body) ==
    LET queue == GetStr(body)
        cap == GetU32(queue.rest)
    IN  IF ~queue.ok \/ ~cap.ok THEN Out(StBadRequest, <<>>)
        ELSE IF GetQueue(queue.val) THEN Out(StTopicExists, <<>>)
        ELSE NoOut

HandleCreateQueue(c, body) ==
    LET out == CreateQueueOut(body)
        queue == GetStr(body)
    IN  /\ task[c].pc = "idle"
        /\ out.status = Going
        /\ task' = [task EXCEPT ![c] = [Idle EXCEPT !.pc = "create_queue",
                                                   !.name = queue.val,
                                                   !.cap = GetU32(queue.rest).val]]
        /\ last' = Step("CreateQueue", queue.val, out)
        /\ UNCHANGED <<wire, me, hash, topics, queues, pushed, popped, fanouts>>

\* handle_create_queue: registry.create_queue(queue, cap); put_status(Ok).
\* Queue::new runs only when the entry is vacant, and ArrayQueue::new(0)
\* panics: the task of the connection ends without a reply
CreateQueueInsert(c) ==
    LET queue == task[c].name
    IN  /\ task[c].pc = "create_queue"
        /\ IF ~GetQueue(queue) /\ task[c].cap = 0
           THEN /\ task' = [task EXCEPT ![c] = [Idle EXCEPT !.pc = "panicked"]]
                /\ last' = Step("CreateQueue", queue, NoOut)
                /\ UNCHANGED queues
           ELSE /\ queues' = CreateQueueEntry(queues, queue, task[c].cap)
                /\ task' = [task EXCEPT ![c] = Idle]
                /\ last' = [Step("CreateQueue", queue, Out(StOk, <<>>)) EXCEPT
                               !.pre = queues[queue], !.ok = ~GetQueue(queue),
                               !.cap = task[c].cap]
        /\ UNCHANGED <<wire, me, hash, topics, pushed, popped, fanouts>>

\* handle_bind_queue.  Topics and queues are never removed, so the handler is
\* linearised at its last access to the registry
\* a faulty handler, to compare with: one that binds without looking the
\* queue up
BindQueueOutAnyQueue(body) ==
    LET topic == GetStr(body)
        queue == GetStr(topic.rest)
        leader == LeaderOf(topic.val)
    IN  IF ~topic.ok \/ ~queue.ok THEN Out(StBadRequest, <<>>)
        ELSE IF leader # me THEN Out(StRedirect, PutStr(Addr(leader)))
        ELSE IF ~GetTopic(topic.val) THEN Out(StNotFound, <<>>)
        ELSE Out(StOk, <<>>)
BindQueueOut(body) ==
    LET topic == GetStr(body)
        queue == GetStr(topic.rest)
        leader == LeaderOf(topic.val)
    IN  IF ~topic.ok \/ ~queue.ok THEN Out(StBadRequest, <<>>)
        ELSE IF leader # me THEN Out(StRedirect, PutStr(Addr(leader)))
        ELSE IF ~GetTopic(topic.val) \/ ~GetQueue(queue.val) THEN Out(StNotFound, <<>>)
        ELSE Out(StOk, <<>>)

HandleBindQueue(c, body) ==
    LET out == BindQueueOut(body)
        topic == GetStr(body)
        queue == GetStr(topic.rest)
    IN  /\ task[c].pc = "idle"
        /\ out.status = StOk
        /\ topics' = [topics EXCEPT ![topic.val] = Bind(@, queue.val)]
        /\ last' = [Step("BindQueue", topic.val, out) EXCEPT
                       !.q = queue.val, !.bound = topics[topic.val].bound_queues]
        /\ UNCHANGED <<wire, me, hash, queues, task, pushed, popped, fanouts>>

\* handle_produce up to the fan-out loop: parse, get_topic, leadership
ProduceOut(body) ==
    LET topic == GetStr(body)
        data == GetBytes(topic.rest)
        leader == LeaderOf(topic.val)
    IN  IF ~topic.ok \/ ~data.ok THEN Out(StBadRequest, <<>>)
        ELSE IF ~GetTopic(topic.val) THEN Out(StNotFound, <<>>)
        ELSE IF leader # me THEN Out(StRedirect, PutStr(Addr(leader)))
        ELSE NoOut

HandleProduce(c, body) ==
    LET out == ProduceOut(body)
        topic == GetStr(body)
        data == GetBytes(topic.rest)
    IN  /\ task[c].pc = "idle"
        /\ out.status = Going
        /\ fanouts < MaxProduce
        /\ task' = [task EXCEPT ![c] =
                      [Idle EXCEPT !.pc = "fanout", !.name = topic.val,
                                   !.data = data.val,
                                   !.snap = topics[topic.val].bound_queues]]
        /\ fanouts' = fanouts + 1
        /\ last' = Step("Produce", topic.val, out)
        /\ UNCHANGED <<wire, me, hash, topics, queues, pushed, popped>>

\* one turn of `for q_name in t.bound_queues.iter()`: get_queue, then
\* q.push(data.clone()) with its result ignored.  The iteration is not a
\* snapshot: a name bound while it runs may or may not be visited
ProducePush(c, q) ==
    LET res == QPush(queues[q], task[c].data)
    IN  /\ task[c].pc = "fanout"
        /\ q \in topics[task[c].name].bound_queues \ task[c].seen
        /\ task' = [task EXCEPT ![c].seen = @ \cup {q}]
        /\ IF GetQueue(q)
           THEN /\ queues' = [queues EXCEPT ![q] = res.q]
                /\ pushed' = IF res.ok THEN [pushed EXCEPT ![q] = Append(@, task[c].data)]
                             ELSE pushed
                /\ last' = [Step("Push", task[c].name, NoOut) EXCEPT
                               !.q = q, !.pre = queues[q], !.ok = res.ok,
                               !.body = task[c].data]
           ELSE /\ last' = [Step("Skip", task[c].name, NoOut) EXCEPT !.q = q]
                /\ UNCHANGED <<queues, pushed>>
        /\ UNCHANGED <<wire, me, hash, topics, popped, fanouts>>

\* the end of the loop: put_status(Ok)
ProduceDone(c) ==
    /\ task[c].pc = "fanout"
    /\ task[c].snap \subseteq task[c].seen
    /\ task' = [task EXCEPT ![c] = Idle]
    /\ last' = Step("Produce", task[c].name, Out(StOk, <<>>))
    /\ UNCHANGED <<wire, me, hash, topics, queues, pushed, popped, fanouts>>

\* handle_consume: parse, get_queue, q.pop().  The timeout is read and not
\* used, and the handler has no await: `waited` is the time it spends
\* suspended before it replies
ConsumeOut(body) ==
    LET queue_name == GetStr(body)
        tmo == GetU32(queue_name.rest)
        timeout == IF tmo.ok THEN tmo.val ELSE 0
        res == QPop(queues[queue_name.val])
        out == IF ~queue_name.ok THEN Out(StBadRequest, <<>>)
               ELSE IF ~GetQueue(queue_name.val) THEN Out(StNotFound, <<>>)
               ELSE IF res.ok THEN Out(StOk, PutBytes(res.val))
               ELSE Out(StEmpty, <<>>)
    IN  [status |-> out.status, body |-> out.body, timeout |-> timeout, waited |-> 0,
         queues |-> IF out.status = StOk
                    THEN [queues EXCEPT ![queue_name.val] = res.q] ELSE queues]

HandleConsume(c, body) ==
    LET out == ConsumeOut(body)
        q == GetStr(body).val
    IN  /\ task[c].pc = "idle"
        /\ out.status = StOk
        /\ queues' = out.queues
        /\ popped' = [popped EXCEPT ![q] = Append(@, QPop(queues[q]).val)]
        /\ last' = [Step("Consume", q, out) EXCEPT
                       !.timeout = out.timeout, !.q = q, !.pre = queues[q]]
        /\ UNCHANGED <<wire, me, hash, topics, task, pushed, fanouts>>

Next ==
    \/ \E c \in Admins, body \in TopicBodies : HandleCreateTopic(c, body)
    \/ \E c \in Admins : CreateTopicInsert(c)
    \/ \E c \in Admins, body \in CreateQueueBodies : HandleCreateQueue(c, body)
    \/ \E c \in Admins : CreateQueueInsert(c)
    \/ \E c \in Admins, body \in BindBodies : HandleBindQueue(c, body)
    \/ \E c \in Conns : \E body \in ProduceBodies(c) : HandleProduce(c, body)
    \/ \E c \in Conns, q \in Names : ProducePush(c, q)
    \/ \E c \in Conns : ProduceDone(c)
    \/ \E c \in Conns, body \in ConsumeBodies : HandleConsume(c, body)

Spec == Init /\ [][Next]_vars

\* the handlers with the create requests of both connections: the tasks of
\* two connections run the same handler at once
RaceNext ==
    \/ \E c \in Conns, body \in TopicBodies : HandleCreateTopic(c, body)
    \/ \E c \in Conns : CreateTopicInsert(c)
    \/ \E c \in Conns, body \in CreateQueueBodies : HandleCreateQueue(c, body)
    \/ \E c \in Conns : CreateQueueInsert(c)
    \/ \E c \in Admins, body \in BindBodies : HandleBindQueue(c, body)
    \/ \E c \in Admins : \E body \in ProduceBodies(c) : HandleProduce(c, body)
    \/ \E c \in Admins, q \in Names : ProducePush(c, q)
    \/ \E c \in Admins : ProduceDone(c)

RaceSpec == Init /\ [][RaceNext]_vars

\* --------------------------------------------- server.rs connection loop
\* the fan-out loop of handle_produce run to its end: pushes to different
\* queues commute, so the order of the iteration does not show
FanOut(qs, bound, data) ==
    [q \in Names |-> IF q \in bound /\ qs[q] # NoQueue
                     THEN QPush(qs[q], data).q ELSE qs[q]]

\* `match hdr.op`: the handler of the opcode, run from its first line to its
\* return; `out` is the reply body it wrote
Serve(op, body) ==
    LET same(o) == [out |-> o.body, topics |-> topics, queues |-> queues]
        ok == Out(StOk, <<>>).body
    IN  CASE op = OpMetadata -> same(MetadataOut(body))
          [] op = OpCreateTopic ->
                IF CreateTopicOut(body).status # Going THEN same(CreateTopicOut(body))
                ELSE [out |-> ok, queues |-> queues,
                      topics |-> CreateTopicEntry(topics, GetStr(body).val)]
          [] op = OpProduce ->
                IF ProduceOut(body).status # Going THEN same(ProduceOut(body))
                ELSE LET topic == GetStr(body)
                     IN  [out |-> ok, topics |-> topics,
                          queues |-> FanOut(queues, topics[topic.val].bound_queues,
                                            GetBytes(topic.rest).val)]
          [] op = OpConsume ->
                [out |-> ConsumeOut(body).body, topics |-> topics,
                 queues |-> ConsumeOut(body).queues]
          [] OTHER -> same(ReadOut(body))

\* a faulty reply header, to compare with: one that does not echo the stream
ReplyFrameNoEcho(hdr, out) ==
    HeaderEncode([op |-> hdr.op, flags |-> 0, stream_id |-> 0,
                  body_len |-> Len(out)]) \o out
\* the reply as handle_conn and write_err frame it: the request's op and
\* stream_id, flags 0, body_len = out.len(), then the body
ReplyFrame(hdr, out) ==
    HeaderEncode([op |-> hdr.op, flags |-> 0, stream_id |-> hdr.stream_id,
                  body_len |-> Len(out)]) \o out

\* a faulty reply, to compare with: one that writes the body before the header
ReplyWritesBodyFirst(hdr, out) ==
    <<out, HeaderEncode([op |-> hdr.op, flags |-> 0, stream_id |-> hdr.stream_id,
                         body_len |-> Len(out)])>>
\* sock.write_all(&hb).await?; sock.write_all(&out).await?: the reply goes out
\* in two writes, the task can be suspended in each
ReplyWrites(hdr, out) ==
    <<HeaderEncode([op |-> hdr.op, flags |-> 0, stream_id |-> hdr.stream_id,
                    body_len |-> Len(out)]), out>>

\* the frames clients send (client.rs rpc): every opcode of the protocol and
\* an opcode outside it, each with a body of its format
SentOps == (1..7) \cup {9}
StreamIds == {0, 5}
BodyOf(op) ==
    CASE op = 1 -> PutStr(NameT)
      [] op = 2 -> ProduceBody(NameT, <<7>>)
      [] op = 3 -> ConsumeBody(NameT, 0)
      [] op = 4 -> PutStr(NameT)
      [] op = 6 -> PutStr(NameQ) \o PutU32(1)
      [] op = 7 -> PutStr(NameT) \o PutStr(NameQ)
      [] OTHER -> <<>>
\* the body of the historical Read request: topic | partition | size
ReadBody == PutStr(NameT) \o PutU32(0) \o PutU32(1)
Frame(op, sid, body) ==
    HeaderEncode([op |-> op, flags |-> 0, stream_id |-> sid,
                  body_len |-> Len(body)]) \o body
Frames ==
    {Frame(op, sid, BodyOf(op)) : op \in SentOps, sid \in StreamIds}
        \cup {Frame(OpMetadata, 0, <<>>), Frame(OpRead, 0, ReadBody)}
\* a frame with a wrong magic ("QBUT") and one with version 2
BadMagic == <<81, 66, 85, 84>> \o Drop(Frame(OpMetadata, 0, PutStr(NameT)), 4)
BadVersion == [Frame(OpMetadata, 0, PutStr(NameT)) EXCEPT ![5] = 2]
\* two requests sent back to back
Pipelined ==
    Frame(OpMetadata, 0, PutStr(NameT)) \o Frame(OpCreateTopic, 5, PutStr(NameT))
\* what one read returns: a whole frame, the header of a frame alone, its
\* body alone, or nothing (end of stream)
Chunks ==
    Frames \cup {BadMagic, BadVersion, <<>>}
        \cup {SubSeq(Frame(OpProduce, 0, BodyOf(OpProduce)), 1, HeaderLen),
              BodyOf(OpProduce)}

\* one turn of the loop of handle_conn: read_buf, Header::decode, the check
\* of the body length, the handler and the reply.  The task can be suspended
\* in each write_all of the reply: with `whole` the turn runs to its end (no
\* other task touches the socket), without it the turn stops before the
\* first write_all
ConnStep(c, chunk, whole) ==
    LET cn == conns[c]
        buf == cn.buf \o chunk
        d == HeaderDecode(buf)
        body == SubSeq(d.rest, 1, d.hdr.body_len)
        r == Serve(d.hdr.op, body)
        turn(kind) == [NoIter EXCEPT !.conn = c, !.kind = kind, !.buf = buf,
                                     !.topics = topics, !.queues = queues]
        goes(b) == [cn EXCEPT !.buf = b, !.reads = @ + 1]
        ends(how) == [cn EXCEPT !.state = how, !.buf = <<>>, !.reads = @ + 1]
    IN  /\ cn.state = "open"
        /\ cn.reads < MaxReads
        /\ IF chunk = <<>>
           THEN /\ conns' = [conns EXCEPT ![c] = ends("closed")]
                /\ iter' = turn("eof")
                /\ UNCHANGED <<topics, queues>>
           ELSE IF d.res = "err"
           THEN /\ conns' = [conns EXCEPT ![c] = ends("failed")]
                /\ iter' = turn("fatal")
                /\ UNCHANGED <<topics, queues>>
           ELSE IF d.res = "none"
           THEN /\ conns' = [conns EXCEPT ![c] = goes(buf)]
                /\ iter' = turn("wait")
                /\ UNCHANGED <<topics, queues>>
           ELSE IF Len(d.rest) < d.hdr.body_len
           THEN /\ conns' = [conns EXCEPT ![c] = goes(d.rest)]
                /\ iter' = [turn("short") EXCEPT !.hdr = d.hdr]
                /\ UNCHANGED <<topics, queues>>
           ELSE /\ conns' = [conns EXCEPT ![c] =
                              IF whole
                              THEN goes(Drop(d.rest, d.hdr.body_len))
                              ELSE [goes(Drop(d.rest, d.hdr.body_len)) EXCEPT
                                       !.state = "writing",
                                       !.pend = ReplyWrites(d.hdr, r.out)]]
                /\ topics' = r.topics
                /\ queues' = r.queues
                /\ iter' = [turn("reply") EXCEPT !.hdr = d.hdr, !.body = body,
                                                 !.wrote = ReplyFrame(d.hdr, r.out)]
        /\ UNCHANGED <<me, hash, task, last, pushed, popped, fanouts, cli, pw, cod>>

\* a turn run to its end, and a turn up to its first write_all
ConnTurn(c, chunk) == ConnStep(c, chunk, TRUE)
ConnRead(c, chunk) == ConnStep(c, chunk, FALSE)

\* one write_all of the reply; after the last the loop is back at read_buf
ConnWrite(c) ==
    LET cn == conns[c]
    IN  /\ cn.state = "writing"
        /\ conns' = [conns EXCEPT ![c] =
                         IF Len(cn.pend) > 1
                         THEN [cn EXCEPT !.sent = @ \o Head(cn.pend), !.pend = Tail(@)]
                         ELSE [cn EXCEPT !.sent = <<>>, !.pend = <<>>,
                                         !.state = "open"]]
        /\ UNCHANGED <<me, hash, topics, queues, task, last, pushed, popped, fanouts,
                       iter, cli, pw, cod>>

ConnNext == \E c \in Conns, chunk \in Chunks : ConnTurn(c, chunk)

ConnSpec == Init /\ [][ConnNext]_vars

\* the loops of two connections with the writes of their replies interleaved;
\* a read returns one request, two requests, or nothing
SeqChunks ==
    {Frame(OpMetadata, 0, PutStr(NameT)), Frame(OpCreateTopic, 5, PutStr(NameT)),
     Pipelined, <<>>}
SeqNext ==
    \/ \E c \in Conns, chunk \in SeqChunks : ConnRead(c, chunk)
    \/ \E c \in Conns : ConnWrite(c)

SeqSpec == Init /\ [][SeqNext]_vars

\* ------------------------------------------- client.rs redirecting call
\* `for _ in 0..5`
MaxAttempts == 5
Addrs == {Addr(n) : n \in Nodes}
NodeAt(addr) == CHOOSE n \in Nodes : Addr(n) = addr

\* what the node n answers to a request for topic t that only the leader
\* serves (the leader check of handle_create_topic, with me = n)
NodeReply(n, t) ==
    IF ~IsLeaderAt(n, t) THEN Out(StRedirect, PutStr(Addr(LeaderOf(t))))
    ELSE Out(StOk, <<>>)
\* the replies a call can meet: those of nodes that hold the same member
\* list, or any reply (nodes configured differently, a Redirect whose
\* payload is not a string)
Replies(net, addr) ==
    IF net = "agree" THEN {NodeReply(NodeAt(addr), NameT)}
    ELSE {Out(StRedirect, PutStr(a)) : a \in Addrs}
            \cup {Out(StRedirect, <<>>), Out(StOk, <<>>), Out(StNotFound, <<>>)}

AllReplies == UNION {Replies(net, a) : net \in {"agree", "any"}, a \in Addrs}

\* redirecting_call_resp is entered: current = server
ClientCall(net, server) ==
    /\ cli.pc = "idle"
    /\ cli' = [NoCall EXCEPT !.pc = "calling", !.net = net, !.current = server]
    /\ UNCHANGED <<me, hash, topics, queues, task, last, pushed, popped, fanouts,
                   conns, iter, pw, cod>>

\* the end of `for _ in 0..5`
LoopEnds(attempts) == attempts >= MaxAttempts

\* one turn of the loop: connect(current), rpc, and either the return of a
\* reply that is not a Redirect or current = the address of the Redirect;
\* after the last turn the call bails out with "too many redirects"
ClientAttempt(reply) ==
    LET st == FromBE(SubSeq(reply.body, 1, 2), 2)
        payload == Drop(reply.body, 2)
        addr == GetStr(payload)
        met == [cli EXCEPT !.attempts = @ + 1, !.asked = Append(@, cli.current)]
    IN  /\ cli.pc = "calling"
        /\ reply \in Replies(cli.net, cli.current)
        /\ cli' = IF st # StRedirect
                  THEN [met EXCEPT !.pc = "done", !.status = st, !.payload = payload]
                  ELSE IF ~addr.ok THEN [met EXCEPT !.pc = "panicked"]
                  ELSE [met EXCEPT !.current = addr.val,
                                   !.told = Append(@, addr.val),
                                   !.pc = IF LoopEnds(met.attempts)
                                          THEN "failed" ELSE "calling"]
        /\ UNCHANGED <<me, hash, topics, queues, task, last, pushed, popped, fanouts,
                       conns, iter, pw, cod>>

ClientNext ==
    \/ \E net \in {"agree", "any"}, server \in Addrs : ClientCall(net, server)
    \/ \E reply \in AllReplies : ClientAttempt(reply)

ClientInit == hash \in AllHashes /\ Fresh

ClientSpec == ClientInit /\ [][ClientNext]_vars

\* ------------------------------------------------- queue.rs pop_wait
\* n tasks call pop_wait on one empty queue and n tasks push one payload each
WaitStart(n) ==
    /\ pw.n = 0
    /\ pw' = [n |-> n, q |-> QueueNew(n), parked |-> <<>>,
              w |-> [i \in 1..n |-> [pc |-> "pop", got |-> <<>>, via |-> "none"]],
              p |-> [i \in 1..n |-> "push"]]
    /\ UNCHANGED <<me, hash, topics, queues, task, last, pushed, popped, fanouts,
                   conns, iter, cli, cod>>

\* a faulty notify_one, to compare with: one that wakes a suspended task and
\* stores nothing when there is none
NotifyOneNoPermit(st) ==
    IF st.parked # <<>>
    THEN [st EXCEPT !.parked = Tail(@), !.w[Head(st.parked)].pc = "pop",
                    !.w[Head(st.parked)].via = "wake"]
    ELSE st
\* Notify::notify_one: the task that has waited longest is woken; when no task
\* waits, one permit is stored (a second one is not added to it)
NotifyOne(st) ==
    IF st.parked # <<>>
    THEN [st EXCEPT !.parked = Tail(@), !.w[Head(st.parked)].pc = "pop",
                    !.w[Head(st.parked)].via = "wake"]
    ELSE [st EXCEPT !.q.permit = TRUE]

\* pop_wait, `if let Some(v) = self.mem.pop() { return v; }`
WaitPop(i) ==
    LET res == QPop(pw.q)
    IN  /\ i \in 1..pw.n
        /\ pw.w[i].pc = "pop"
        /\ pw' = IF res.ok
                 THEN [pw EXCEPT !.q = res.q, !.w[i].pc = "done", !.w[i].got = res.val]
                 ELSE [pw EXCEPT !.w[i].pc = "await"]
        /\ UNCHANGED <<me, hash, topics, queues, task, last, pushed, popped, fanouts,
                       conns, iter, cli, cod>>

\* pop_wait, `self.notify.notified().await`: a stored permit is taken and the
\* task goes on; without one the task is suspended
WaitAwait(i) ==
    /\ i \in 1..pw.n
    /\ pw.w[i].pc = "await"
    /\ pw' = IF pw.q.permit
             THEN [pw EXCEPT !.q.permit = FALSE, !.w[i].pc = "pop", !.w[i].via = "permit"]
             ELSE [pw EXCEPT !.parked = Append(@, i), !.w[i].pc = "parked"]
    /\ UNCHANGED <<me, hash, topics, queues, task, last, pushed, popped, fanouts,
                   conns, iter, cli, cod>>

\* Queue::push, `self.mem.push(val)`: producer i pushes the payload <<i>>
WaitPush(i) ==
    /\ i \in 1..pw.n
    /\ pw.p[i] = "push"
    /\ pw' = IF Len(pw.q.mem) < pw.q.cap
             THEN [pw EXCEPT !.q.mem = Append(@, <<i>>), !.p[i] = "notify"]
             ELSE [pw EXCEPT !.p[i] = "done"]
    /\ UNCHANGED <<me, hash, topics, queues, task, last, pushed, popped, fanouts,
                   conns, iter, cli, cod>>

\* Queue::push, `if res.is_ok() { self.notify.notify_one(); }`
WaitNotify(i) ==
    /\ i \in 1..pw.n
    /\ pw.p[i] = "notify"
    /\ pw' = [NotifyOne(pw) EXCEPT !.p[i] = "done"]
    /\ UNCHANGED <<me, hash, topics, queues, task, last, pushed, popped, fanouts,
                   conns, iter, cli, cod>>

WaitNext ==
    \/ \E n \in 1..MaxWaiters : WaitStart(n)
    \/ \E i \in 1..MaxWaiters : WaitPop(i)
    \/ \E i \in 1..MaxWaiters : WaitAwait(i)
    \/ \E i \in 1..MaxWaiters : WaitPush(i)
    \/ \E i \in 1..MaxWaiters : WaitNotify(i)

\* the runtime runs every task that can run
WaitSpec == Init /\ [][WaitNext]_vars /\ WF_vars(WaitNext)

\* ------------------------------------------- protocol.rs typed fields
SeqsOver(S) == UNION {[1..n -> S] : n \in 0..MaxLen}
\* a value longer than 255 bytes: its length takes both bytes of a u16
Long == [i \in 1..300 |-> 116]
\* strings (of ASCII characters), byte sequences and u32 values
StrVals == SeqsOver({0, 116}) \cup {Long}
ByteVals == SeqsOver({0, 200}) \cup {Long}
U32Vals == {0, 1, 256, 65537, 2147483647}
Tails == {<<>>, <<0, 1>>}

CodecPutOf(fn, v) ==
    CASE fn = "str" -> PutStr(v)
      [] fn = "bytes" -> PutBytes(v)
      [] OTHER -> PutU32(v)
CodecGetOf(fn, b) ==
    CASE fn = "str" -> GetStr(b)
      [] fn = "bytes" -> GetBytes(b)
      [] OTHER -> GetU32(b)

\* put_str / put_bytes / put_u32 of a value, then the bytes of what follows
CodecPut(fn, v, tail) ==
    /\ cod.pc = "idle"
    /\ cod' = [NoCodec EXCEPT !.pc = "put", !.fn = fn, !.val = v, !.tail = tail,
                              !.buf = CodecPutOf(fn, v) \o tail]
    /\ UNCHANGED <<me, hash, topics, queues, task, last, pushed, popped, fanouts,
                   conns, iter, cli, pw>>

\* the buffer reaches the reader k bytes long, short of the end of the value
CodecCut(k) ==
    /\ cod.pc = "put"
    /\ cod.tail = <<>>
    /\ k < Len(cod.buf)
    /\ cod' = [cod EXCEPT !.pc = "cut", !.buf = SubSeq(@, 1, k), !.cut = TRUE]
    /\ UNCHANGED <<me, hash, topics, queues, task, last, pushed, popped, fanouts,
                   conns, iter, cli, pw>>

\* get_str / get_bytes / get_u32 on the buffer
CodecGet ==
    /\ cod.pc \in {"put", "cut"}
    /\ cod' = [cod EXCEPT !.pc = "got", !.res = CodecGetOf(cod.fn, cod.buf)]
    /\ UNCHANGED <<me, hash, topics, queues, task, last, pushed, popped, fanouts,
                   conns, iter, cli, pw>>

CodecNext ==
    \/ \E v \in StrVals, tail \in Tails : CodecPut("str", v, tail)
    \/ \E v \in ByteVals, tail \in Tails : CodecPut("bytes", v, tail)
    \/ \E v \in U32Vals, tail \in Tails : CodecPut("u32", v, tail)
    \/ \E k \in 0..(Len(Long) + 4) : CodecCut(k)
    \/ CodecGet

CodecSpec == Init /\ [][CodecNext]_vars

\* ------------------------------------------------------------ the claims
RECURSIVE Count(_, _)
Count(seq, x) ==
    IF seq = <<>> THEN 0
    ELSE (IF Head(seq) = x THEN 1 ELSE 0) + Count(Tail(seq), x)


\* C1: every queue holds between 0 and `capacity` payloads in every reachable
\* state, and a push on a queue that holds `capacity` payloads fails and
\* leaves the queue as it was.
C1_OccupancyBounded ==
    /\ \A q \in Names : Len(queues[q].mem) >= 0 /\ Len(queues[q].mem) <= queues[q].cap
    /\ (last.op = "Push" /\ Len(last.pre.mem) = last.pre.cap)
          => (~last.ok /\ queues[last.q] = last.pre)
    /\ \A q \in Names, d \in Payloads :
          Len(queues[q].mem) = queues[q].cap => QPush(queues[q], d).q = queues[q]

\* a push has just failed on a full queue
C1_Witness ==
    /\ last.op = "Push" /\ ~last.ok
    /\ last.pre.cap > 0 /\ Len(last.pre.mem) = last.pre.cap

\* C2: CreateTopic, BindQueue and Produce for a topic whose leader is another
\* node are answered Redirect with the leader's address, whether or not the
\* topic exists here, and change nothing.
C2_NonLeaderRedirects ==
    \A t \in TopicNames :
        LeaderOf(t) # me =>
            LET redirect == Out(StRedirect, PutStr(Addr(LeaderOf(t))))
            IN  /\ CreateTopicOut(PutStr(t)) = redirect
                /\ \A q \in Names : BindQueueOut(PutStr(t) \o PutStr(q)) = redirect
                /\ \A d \in Payloads : ProduceOut(ProduceBody(t, d)) = redirect

\* C3: every payload pushed into a queue is delivered by at most one Consume:
\* for every queue and payload value, the number of Ok replies that carried it
\* plus the number of copies still queued is the number of its successful
\* pushes, and an Ok reply removes exactly one payload.
C3_AtMostOnce ==
    /\ \A q \in Names, x \in Payloads :
          Count(popped[q], x) + Count(queues[q].mem, x) = Count(pushed[q], x)
    /\ (last.op = "Consume" /\ last.status = StOk)
          => Len(queues[last.q].mem) = Len(last.pre.mem) - 1

\* the same payload value was pushed twice and delivered by two Ok replies
C3_Witness ==
    \E q \in Names :
        /\ Len(popped[q]) >= 2 /\ popped[q][1] = popped[q][2]
        /\ last.op = "Consume" /\ last.status = StOk /\ last.q = q

\* C4: delivery from a queue is FIFO: the payloads popped so far, followed by
\* the payloads still queued, are the payloads pushed, in the order in which
\* their pushes succeeded.
C4_Fifo ==
    \A q \in Names : pushed[q] = popped[q] \o queues[q].mem

\* two different payloads were pushed to one queue and both were consumed
C4_Witness ==
    \E q \in Names :
        /\ Len(popped[q]) >= 2 /\ popped[q][1] # popped[q][2]
        /\ last.op = "Consume" /\ last.status = StOk /\ last.q = q

\* one fan-out step, as C5 states it: a bound queue with room gets one copy
\* of the payload at its tail, a full one is left alone, and only queues bound
\* to the topic are touched
FanOutStep ==
    last.op = "Push" =>
        /\ last.q \in topics[last.name].bound_queues
        /\ IF Len(last.pre.mem) < last.pre.cap
           THEN queues[last.q].mem = Append(last.pre.mem, last.body)
           ELSE queues[last.q] = last.pre

\* C5: a Produce received by the leader of its topic appends one copy of the
\* payload to every bound queue with room, nothing to a full or missing one,
\* touches no other queue, and replies Ok in all of these cases.
C5_FanOutRepliesOk ==
    /\ FanOutStep
    /\ \A t \in TopicNames, d \in Payloads :
          LeaderOf(t) = me => ProduceOut(ProduceBody(t, d)).status \in {Going, StOk}

\* C6: after CreateTopic(t) replied Ok, topic t exists, a queue named t exists
\* (capacity 1024) and t is bound to topic t.
DefaultCapacity == 1024
C6_CreateTopicDefaultQueue ==
    (last.op = "CreateTopic" /\ last.status = StOk) =>
        /\ GetTopic(last.name)
        /\ GetQueue(last.name) /\ queues[last.name].cap = DefaultCapacity
        /\ last.name \in topics[last.name].bound_queues

\* C7: a Produce received by the leader for a topic that was never created
\* never replies NotFound: it creates the topic and its default queue.
C7_ProduceAutoCreates ==
    /\ \A t \in TopicNames, d \in Payloads :
          LeaderOf(t) = me => ProduceOut(ProduceBody(t, d)).status # StNotFound
    /\ (last.op = "Produce" /\ last.status = StOk) =>
          (GetQueue(last.name) /\ last.name \in topics[last.name].bound_queues)

\* C8: Consume never replies NotFound: a queue that does not exist is created
\* and the request is served as on an empty queue.
C8_ConsumeAutoCreates ==
    \A q \in Names, tmo \in 0..MaxTimeout :
        LET o == ConsumeOut(ConsumeBody(q, tmo))
        IN  /\ o.status # StNotFound
            /\ ~GetQueue(q) => (o.queues[q] # NoQueue /\ o.status = StEmpty)

\* C9: a Consume with timeout_ms > 0 on an empty queue is not answered at
\* once: it is answered Empty only when the timer has run for timeout_ms, and
\* then it has dequeued nothing.
C9_BlockingConsume ==
    \A q \in Names, tmo \in 1..MaxTimeout :
        LET o == ConsumeOut(ConsumeBody(q, tmo))
        IN  (GetQueue(q) /\ o.status = StEmpty) =>
                (o.waited >= tmo /\ o.queues = queues)

\* C10: Consume(q, 0) never suspends; on an empty queue it replies Empty and
\* leaves the queue unchanged, on a non-empty queue it replies Ok with the
\* payload at the head, byte for byte, and removes exactly that payload.
C10_NonBlockingConsume ==
    /\ \A q \in Names :
          LET o == ConsumeOut(ConsumeBody(q, 0))
              mem == queues[q].mem
          IN  /\ o.waited = 0
              /\ (GetQueue(q) /\ mem = <<>>) =>
                    (o.status = StEmpty /\ o.body = PutStatus(StEmpty) /\ o.queues = queues)
              /\ (GetQueue(q) /\ mem # <<>>) =>
                    /\ o.status = StOk
                    /\ SubSeq(o.body, 1, 2) = PutStatus(StOk)
                    /\ GetBytes(Drop(o.body, 2)) = Some(Head(mem), <<>>)
                    /\ o.queues = [queues EXCEPT ![q].mem = Tail(mem)]
    /\ (last.op = "Consume" /\ last.timeout = 0 /\ last.status = StOk) =>
          /\ GetBytes(Drop(last.body, 2)) = Some(Head(last.pre.mem), <<>>)
          /\ queues[last.q] = [last.pre EXCEPT !.mem = Tail(@)]

\* a Consume with timeout 0 has just returned a zero-length payload from the
\* head of a queue that held two payloads
C10_Witness ==
    /\ last.op = "Consume" /\ last.timeout = 0 /\ last.status = StOk
    /\ Len(last.pre.mem) = 2 /\ Head(last.pre.mem) = <<>>
    /\ last.body = <<0, 0, 0, 0, 0, 0>>

\* C11: on the leader, CreateTopic(t) replies Ok when t does not exist yet
\* and TopicExists (the ResourceExists status) whenever t exists; only a
\* request that found t absent goes on to insert it, and the topic it creates
\* starts with an empty bound set.  A TopicExists reply is an early return
\* that has written nothing to the registry.
C11_CreateTopicOnce ==
    /\ \A t \in TopicNames :
          LeaderOf(t) = me =>
              IF topics[t].exists
              THEN CreateTopicOut(PutStr(t)) = Out(StTopicExists, <<>>)
              ELSE CreateTopicOut(PutStr(t)) = NoOut
    /\ \A c \in Conns :
          task[c].pc = "create_topic" => ~topics[task[c].name].exists
    /\ (last.op = "CreateTopic" /\ last.status = StOk) =>
          (topics[last.name].exists /\ LeaderOf(last.name) = me)

\* topic t exists with a bound queue that holds a payload, and a further
\* CreateTopic(t) is answered TopicExists
C11_Witness ==
    /\ topics[NameT].exists /\ LeaderOf(NameT) = me
    /\ \E q \in topics[NameT].bound_queues : queues[q].mem # <<>>
    /\ CreateTopicOut(PutStr(NameT)).status = StTopicExists

\* C12: CreateQueue(q, 0) is answered BadRequest and creates nothing, and no
\* task serving a connection ends in a panic; a CreateQueue that replied Ok
\* has created a queue of positive capacity.
C12_ZeroCapacityRefused ==
    /\ \A q \in Names :
          CreateQueueOut(PutStr(q) \o PutU32(0)) = Out(StBadRequest, <<>>)
    /\ \A c \in Conns : task[c].pc # "panicked"
    /\ (last.op = "CreateQueue" /\ last.status = StOk) =>
          (GetQueue(last.name) /\ queues[last.name].cap > 0)

\* C13: on the leader, BindQueue(t, q) replies NotFound when topic t or queue
\* q is unknown and Ok otherwise; after an Ok the bound set of t is the set
\* before the request with q added (so a second BindQueue leaves it as it
\* was), and no fan-out delivers more than one copy to a queue.
C13_BindIsSetUnion ==
    /\ \A t \in TopicNames, q \in Names :
          LeaderOf(t) = me =>
              BindQueueOut(PutStr(t) \o PutStr(q)) =
                  IF topics[t].exists /\ queues[q] # NoQueue
                  THEN Out(StOk, <<>>) ELSE Out(StNotFound, <<>>)
    /\ last.op = "BindQueue" =>
          /\ last.status = StOk
          /\ topics[last.name].bound_queues = last.bound \cup {last.q}
          /\ queues[last.q] # NoQueue
    /\ \A q \in Names : Len(pushed[q]) <= fanouts

\* BindQueue(t, q) has just been applied to a topic already bound to q and to
\* another queue, after a Produce had delivered one copy to q
C13_Witness ==
    /\ last.op = "BindQueue" /\ last.q \in last.bound /\ last.bound # {last.q}
    /\ topics[last.name].bound_queues = last.bound
    /\ Len(pushed[last.q]) = 1 /\ fanouts = 1

\* the bodies that stop short of the end of a well-formed body
Prefixes(b) == {SubSeq(b, 1, k) : k \in 0..(Len(b) - 1)}

\* C14: a request whose body stops short of the end of its format (in the
\* topic or queue string, the payload, the capacity or the timeout_ms) is
\* answered BadRequest and changes no queue.
C14_TruncatedBodyBadRequest ==
    /\ \A t \in TopicNames : \A b \in Prefixes(PutStr(t)) :
          /\ CreateTopicOut(b).status = StBadRequest
          /\ MetadataOut(b).status = StBadRequest
    /\ \A q \in Names, cap \in Caps : \A b \in Prefixes(PutStr(q) \o PutU32(cap)) :
          CreateQueueOut(b).status = StBadRequest
    /\ \A t \in TopicNames, q \in Names : \A b \in Prefixes(PutStr(t) \o PutStr(q)) :
          BindQueueOut(b).status = StBadRequest
    /\ \A t \in TopicNames, d \in Payloads : \A b \in Prefixes(ProduceBody(t, d)) :
          ProduceOut(b).status = StBadRequest
    /\ \A q \in Names, tmo \in 0..MaxTimeout : \A b \in Prefixes(ConsumeBody(q, tmo)) :
          /\ ConsumeOut(b).status = StBadRequest
          /\ ConsumeOut(b).queues = queues

\* the header fields of a buffer, read as the client wrote them
MagicOf(b) == SubSeq(b, 1, 4)
StreamOf(b) == SubSeq(b, 9, 12)
Statuses == {StOk, StRedirect, StEmpty, StTopicExists, StNotFound,
             StBadRequest, StServerError}

\* C15: a turn of a connection loop whose buffer holds a header with a wrong
\* magic, a wrong version or an opcode outside the enum ends the loop: it
\* writes nothing, leaves the registry as it was, and the connection takes no
\* further turn; the loops of the other connections are not affected.
C15_BadHeaderFatal ==
    /\ (iter.kind \in {"fatal", "wait", "short", "reply"}
            /\ Len(iter.buf) >= HeaderLen) =>
          (iter.kind = "fatal" <=>
              \/ MagicOf(iter.buf) # U32BE(MAGIC)
              \/ iter.buf[5] # VERSION
              \/ iter.buf[6] \notin Op)
    /\ iter.kind = "fatal" =>
          /\ iter.wrote = <<>>
          /\ conns[iter.conn].state = "failed"
          /\ topics = iter.topics /\ queues = iter.queues
    /\ \A c \in Conns :
          (conns[c].state \in {"closed", "failed"} /\ iter.conn = c)
              => iter.kind \in {"fatal", "eof"}

\* connection 1 has failed on a bad header and connection 2 has been served
\* a request that changed the registry since
C15_Witness ==
    /\ conns[1].state = "failed"
    /\ iter.conn = 2 /\ iter.kind = "reply" /\ iter.hdr.op = OpCreateTopic
    /\ topics # iter.topics

\* C16: a well-formed frame with any opcode of the protocol (0x01 .. 0x07)
\* is decoded and answered with one reply, and does not end its connection.
C16_EveryOpcodeServed ==
    /\ \A op \in 1..7, sid \in StreamIds :
          HeaderDecode(Frame(op, sid, BodyOf(op))).res = "some"
    /\ (iter.kind = "fatal" /\ MagicOf(iter.buf) = U32BE(MAGIC)
            /\ iter.buf[5] = VERSION) => iter.buf[6] \notin 1..7

\* C17: every reply the loop writes is a frame whose header carries the
\* opcode and the stream_id of the request, as the client sent them, and a
\* body_len equal to the length of the body that follows; the body begins
\* with a status code.
C17_ReplyEchoesRequest ==
    iter.kind = "reply" =>
        LET h == HeaderDecode(iter.wrote)
        IN  /\ h.res = "some"
            /\ h.hdr.op = iter.buf[6] /\ h.hdr.op = iter.hdr.op
            /\ StreamOf(iter.wrote) = StreamOf(iter.buf)
            /\ h.hdr.stream_id = iter.hdr.stream_id
            /\ h.hdr.body_len = Len(h.rest)
            /\ Len(h.rest) >= 2
            /\ FromBE(SubSeq(h.rest, 1, 2), 2) \in Statuses

\* an error reply (BadRequest) has been written for a request with stream 5
C17_Witness ==
    /\ iter.kind = "reply" /\ iter.hdr.stream_id = 5
    /\ Drop(iter.wrote, HeaderLen) = PutStatus(StBadRequest)

IndexOf(n) == CHOOSE i \in 1..Len(NodeList) : NodeList[i] = n

\* C18: leader_of(t) is one member of the list, one whose hash for t is the
\* greatest and, of those, the first in the list; it is the same whichever
\* node computes it, so exactly one node has is_leader(t), and a client that
\* follows the redirects of nodes holding the same list reaches that node
\* after at most one redirect.
C18_LeaderIsFirstMax ==
    /\ \A t \in TopicNames :
          LET l == LeaderOf(t)
          IN  /\ l \in Nodes
              /\ \A n \in Nodes : hash[<<n, t>>] <= hash[<<l, t>>]
              /\ \A n \in Nodes :
                    hash[<<n, t>>] = hash[<<l, t>>] => IndexOf(l) <= IndexOf(n)
              /\ Cardinality({n \in Nodes : IsLeaderAt(n, t)}) = 1
    /\ (cli.pc = "done" /\ cli.net = "agree") =>
          /\ IsLeaderAt(NodeAt(cli.current), NameT)
          /\ Len(cli.told) <= 1

\* two nodes have the same score for t, and a client that asked the second
\* was sent to the first and served there
C18_Witness ==
    /\ hash[<<NodeList[1], NameT>>] = hash[<<NodeList[2], NameT>>]
    /\ cli.pc = "done" /\ cli.net = "agree"
    /\ cli.asked = <<Addr(NodeList[2]), Addr(NodeList[1])>>

\* C19: a call that meets k Redirect replies and then another reply returns
\* that reply for every k up to five, every retry goes to the address of the
\* Redirect before it, the call fails with "too many redirects" only beyond
\* five redirects, and it never makes more than six attempts.
C19_FollowsFiveRedirects ==
    /\ cli.pc = "failed" => Len(cli.told) > MaxAttempts
    /\ cli.pc = "done" => (Len(cli.told) <= MaxAttempts /\ cli.status # StRedirect)
    /\ \A i \in 1..Len(cli.told) :
          i < Len(cli.asked) => cli.asked[i + 1] = cli.told[i]
    /\ Len(cli.asked) <= MaxAttempts + 1

C22_HeaderKeptWhileBodyShort ==
    iter.kind = "short" =>
        /\ conns[iter.conn].buf = iter.buf
        /\ HeaderDecode(conns[iter.conn].buf).res = "some"
        /\ HeaderDecode(conns[iter.conn].buf).hdr = iter.hdr

\* no producer is between its push and its notify_one, and every caller of
\* pop_wait has returned or is suspended
Quiescent ==
    /\ \A i \in 1..pw.n : pw.p[i] = "done"
    /\ \A i \in 1..pw.n : pw.w[i].pc \in {"done", "parked"}

\* C23: with one producer and one caller of pop_wait, the caller is never
\* left suspended on a queue that holds the payload once the producer's
\* notify_one has run, and in every interleaving it returns the payload that
\* was pushed.
C23_NoLostWake ==
    /\ [](pw.n = 1 => ~(pw.w[1].pc = "parked" /\ pw.p[1] = "done" /\ pw.q.mem # <<>>))
    /\ [](pw.n = 1 => (pw.w[1].pc = "done" => pw.w[1].got = <<1>>))
    /\ (pw.n = 1) ~> (pw.n = 1 /\ pw.w[1].pc = "done")

\* the push and its notify_one came between the failed pop and the await:
\* the caller took the stored permit and returned the payload
C23_Witness ==
    /\ pw.n = 1 /\ pw.w[1].pc = "done" /\ pw.w[1].via = "permit"
    /\ pw.w[1].got = <<1>>

\* C28: with two or more callers of pop_wait and as many pushes, no caller
\* is left suspended once every push and its notify_one are over: every
\* caller has returned a payload.
C28_AllWaitersServed ==
    (pw.n >= 2 /\ Quiescent) => \A i \in 1..pw.n : pw.w[i].pc = "done"

\* C24: create_queue is one atomic get-or-insert: on a name that exists it
\* returns the registry as it is, whatever capacity is asked; a queue enters
\* the registry with the capacity of the call that inserted it and keeps it;
\* a create_queue that found the name, as the second of two racing handlers
\* does, leaves the queue, its capacity and its contents as they were; and a
\* CreateQueue whose check finds the name is answered ResourceExists.
C24_AtomicGetOrCreate ==
    /\ [](\A q \in Names, cap \in Caps :
            GetQueue(q) =>
                /\ CreateQueueEntry(queues, q, cap) = queues
                /\ CreateQueueOut(PutStr(q) \o PutU32(cap)) = Out(StTopicExists, <<>>))
    /\ []((last.op = "CreateQueue" /\ last.status = StOk) =>
            /\ GetQueue(last.name)
            /\ last.ok => queues[last.name] = QueueNew(last.cap)
            /\ ~last.ok => queues[last.name] = last.pre)
    /\ [][\A q \in Names :
            GetQueue(q) => (queues'[q] # NoQueue /\ queues'[q].cap = queues[q].cap)]_vars

\* the second of two racing CreateQueue handlers has called create_queue with
\* another capacity on a queue that holds a payload
C24_Witness ==
    /\ last.op = "CreateQueue" /\ last.status = StOk /\ ~last.ok
    /\ last.cap # queues[last.name].cap
    /\ queues[last.name].mem # <<>>

\* C30: of two handlers that run CreateTopic(t), or CreateQueue(q, c), for
\* the same new name at once, one replies Ok and the other ResourceExists:
\* a create is answered Ok only by the handler whose call inserted the entry.
C30_ExactlyOneCreator ==
    (last.op \in {"CreateTopic", "CreateQueue"} /\ last.status = StOk) => last.ok

\* C25: no step removes a topic or a queue: a name that get_topic or
\* get_queue finds is found in every later state, so the sets of names only
\* grow; and a create that was answered Ok or ResourceExists names an entry
\* that exists.
C25_NeverRemoved ==
    /\ [][\A nm \in Names :
            /\ GetTopic(nm) => topics'[nm].exists
            /\ GetQueue(nm) => queues'[nm] # NoQueue]_vars
    /\ []((last.op = "CreateTopic" /\ last.status = StOk) => GetTopic(last.name))
    /\ []((last.op = "CreateQueue" /\ last.status = StOk) => GetQueue(last.name))
    /\ [](\A t \in TopicNames :
            CreateTopicOut(PutStr(t)).status = StTopicExists => GetTopic(t))
    /\ [](\A nm \in Names :
            /\ \A cap \in Caps :
                  CreateQueueOut(PutStr(nm) \o PutU32(cap)).status = StTopicExists
                      => GetQueue(nm))

\* a topic and two queues were created, and payloads have been produced and
\* consumed since: all three are still there
C25_Witness ==
    /\ last.op = "Consume" /\ last.status = StOk
    /\ GetTopic(NameT) /\ GetQueue(NameT) /\ GetQueue(NameQ)
    /\ topics[NameT].bound_queues = Names

\* the bytes of a sequence of buffers, in order
RECURSIVE Concat(_)
Concat(bufs) == IF bufs = <<>> THEN <<>> ELSE Head(bufs) \o Concat(Tail(bufs))

\* the reply a connection is writing: what is on the wire, then what is not
ReplyOf(c) == conns[c].sent \o Concat(conns[c].pend)

\* C26: a connection loop reads and handles a request only when no reply is
\* in progress; the step that dispatches a request starts the one reply to
\* it, header first; while that reply is in progress the loop does nothing
\* but write it, and what is on the wire is a prefix of it that ends at the
\* header or at the body; the loop is back at its read when the whole reply
\* is written.  So replies come one per request, in the order of the requests.
C26_StrictlySequential ==
    /\ [](\A c \in Conns :
            IF conns[c].state = "writing"
            THEN /\ Len(conns[c].pend) \in {1, 2}
                 /\ HeaderDecode(ReplyOf(c)).res = "some"
                 /\ HeaderDecode(ReplyOf(c)).hdr.body_len = Len(ReplyOf(c)) - HeaderLen
                 /\ conns[c].sent = IF Len(conns[c].pend) = 2 THEN <<>>
                                    ELSE SubSeq(ReplyOf(c), 1, HeaderLen)
                 /\ (iter.conn = c) => (iter.kind = "reply" /\ ReplyOf(c) = iter.wrote)
            ELSE conns[c].pend = <<>> /\ conns[c].sent = <<>>)
    /\ [][\A c \in Conns :
            /\ conns'[c].reads # conns[c].reads => conns[c].state = "open"
            /\ (conns'[c].reads # conns[c].reads /\ iter'.kind = "reply") =>
                  (conns'[c].state = "writing" /\ Len(conns'[c].pend) = 2)
            /\ conns[c].state = "writing" =>
                  \/ conns'[c] = conns[c]
                  \/ /\ conns'[c].state = "writing"
                     /\ conns'[c].sent \o Concat(conns'[c].pend) = ReplyOf(c)
                     /\ Len(conns'[c].pend) = Len(conns[c].pend) - 1
                  \/ /\ conns'[c].state = "open" /\ Len(conns[c].pend) = 1
                     /\ conns'[c].buf = conns[c].buf]_vars

\* connection 1 has written the header of the reply to its second request
\* and not yet the body, and connection 2 has been served meanwhile
C26_Witness ==
    /\ conns[1].state = "writing" /\ Len(conns[1].pend) = 1 /\ conns[1].reads = 2
    /\ iter.conn = 2 /\ iter.kind = "reply" /\ conns[2].state = "open"

\* a buffer that holds a complete request frame
HoldsFrame(buf) ==
    LET d == HeaderDecode(buf)
    IN  d.res = "some" /\ Len(d.rest) >= d.hdr.body_len

\* C29: the loop never waits in read_buf, and never closes at the end of the
\* stream, with a complete request frame in its buffer: every frame a read
\* delivered has been answered before the next read.
C29_NoFrameLeftUnanswered ==
    /\ \A c \in Conns : conns[c].state = "open" => ~HoldsFrame(conns[c].buf)
    /\ iter.kind = "eof" => ~HoldsFrame(iter.buf)

\* C27: get_str, get_bytes and get_u32 return the value that put_str,
\* put_bytes and put_u32 wrote and leave the cursor at the first byte after
\* it; on a buffer that stops short of the end of the value, in the length
\* prefix or after it, they return none.
C27_CodecRoundTrip ==
    cod.pc = "got" =>
        IF cod.cut THEN ~cod.res.ok
        ELSE /\ cod.res.ok
             /\ cod.res.val = cod.val
             /\ cod.res.rest = cod.tail

\* a string of 300 characters has come back from get_str, with the two bytes
\* written after it left in the buffer
C27_Witness ==
    /\ cod.pc = "got" /\ cod.fn = "str" /\ ~cod.cut
    /\ cod.val = Long /\ cod.res.val = Long /\ cod.res.rest = <<0, 1>>

\* C31: every name in the bound set of a topic is the name of a queue of the
\* registry, in every state the handlers reach; the set a fan-out iterates
\* over holds existing queues only, so that no turn of the loop finds its
\* queue missing.
C31_BindingsNeverDangle ==
    /\ \A t \in Names : \A q \in topics[t].bound_queues : GetQueue(q)
    /\ \A c \in Conns : \A q \in task[c].snap \cup task[c].seen : GetQueue(q)
    /\ last.op # "Skip"

\* a topic is bound to two queues and a fan-out has just pushed into the
\* second of them
C31_Witness ==
    /\ topics[NameT].bound_queues = Names
    /\ last.op = "Push" /\ last.ok /\ last.name = NameT
    /\ \E c \in Conns : task[c].pc = "fanout" /\ task[c].seen = Names

====
